---- MODULE Spec2Model ----
(***************************************************************************)
(* audipi: callback-driven audio playback with marker sections and loop.   *)
(*                                                                         *)
(* The model follows src/playback.py (the Pausing/Playing engine with the  *)
(* State record, _next_block, _region, seek and the position estimator),   *)
(* src/audio.py (markers and section_at) and src/main.py (the engine that  *)
(* owns one stream and guards start/stop with assertions).                 *)
(*                                                                         *)
(* Two threads run while a stream is active: the audio thread executes the *)
(* callback, the control thread executes start/stop/seek/queries and edits *)
(* params.  Python switches threads between bytecodes, so every read or    *)
(* write of a shared field is one step of the model; work on data local to *)
(* one thread is folded into the step that precedes it.                    *)
(*                                                                         *)
(* Time is counted in milliseconds of the stream clock.  Frames of the     *)
(* sample buffer are identified with their index, so the content of the    *)
(* output buffer tells which frame was copied into which slot.             *)
(***************************************************************************)
EXTENDS Integers, Sequences, FiniteSets, TLC

(* ------------------------------ bounds --------------------------------- *)

\* callbacks the device delivers
MaxCallbacks == 2
\* operations of the control thread after start
MaxOps == 2
\* callbacks the device delivers to a stream that plays undisturbed to its end
MaxPlain == 4

(* --------------------------- program constants -------------------------- *)

\* milliseconds per second: the factor of every msec conversion
MsPerSec == 1000
\* a zero sample written by "dst[size:] = 0"
Silence == -1
\* a slot of the output buffer the callback has not assigned
Unwritten == -2

(* ------------------------------- inputs --------------------------------- *)

\* a short buffer at one frame per millisecond
Small == [frames |-> 6, rate |-> 1000]
\* 10,000 frames at 1,000 Hz
Example == [frames |-> 10000, rate |-> 1000]

Sounds == {Small, Example}

Blocks(s) == IF s = Example THEN {20, 2500} ELSE {2, 3}
StartPositions(s) == IF s = Example THEN {3999} ELSE {3}
SeekPositions(s) == IF s = Example THEN {3999, 9989} ELSE {2, 5}
MarkerPositions(s) == IF s = Example THEN {3000, 6000} ELSE {2, 4}
Quantum(s) == IF s = Example THEN 500 ELSE 1
ClockOrigin(s) == IF s = Example THEN 9000 ELSE 0
Latencies(s) == {Quantum(s)}
\* The threads interleave at every shared access on the short sound; on the
\* 10,000-frame sound, which carries the worked examples of one callback's
\* arithmetic, the control thread acts between callbacks
Interleaved(s) == s # Example

\* the sounds the Audio of audio.py is tried on: the two above, 100 frames at
\* 44,100 Hz (2 ms) and 7 frames at 3 Hz (2,333 ms)
Hifi == [frames |-> 100, rate |-> 44100]
Coarse == [frames |-> 7, rate |-> 3]
AudioSounds == {Small, Example, Hifi, Coarse}

\* positions handed to set_marker and unset_marker; the last of each set lies
\* beyond the length of the sound
AudioPositions(s) ==
  IF s = Example THEN {3000, 5000, 6000, 10001}
  ELSE IF s = Hifi THEN {1, 3}
  ELSE IF s = Coarse THEN {333, 1000, 2000, 2334}
  ELSE {2, 3, 4, 7}

\* frames handed to section_at and position_at
AudioFrames(s) ==
  IF s = Example THEN {0, 1001, 2999, 3000, 3001, 4000, 5999, 6000, 9999}
  ELSE IF s = Hifi THEN {0, 1, 43, 44, 45, 88, 99}
  ELSE 0..(s.frames - 1)

(* ------------------------------ arithmetic ------------------------------ *)

Min(a, b) == IF a < b THEN a ELSE b
Max(a, b) == IF a > b THEN a ELSE b

\* Python's int() of the quotient a / b, b > 0: truncation toward zero
IntTrunc(a, b) == IF a >= 0 THEN a \div b ELSE 0 - ((0 - a) \div b)

(* --------------------------- numpy slicing ------------------------------ *)

\* The output buffer and the slices of the sample data are kept as runs: a run
\* of len slots holds the values from, from + step, from + 2 * step, ...
\* A slice of the data is one run of step 1 whose values are frame indices; a
\* broadcast row, the zero fill and the slots never assigned are runs of step 0.
Run(from, len, step) == [from |-> from, len |-> len, step |-> step]

RECURSIVE slots(_)
slots(d) == IF d = <<>> THEN 0 ELSE d[1].len + slots(Tail(d))

\* the value in slot i, 1 <= i <= slots(d)
RECURSIVE slot(_, _)
slot(d, i) ==
  IF i <= d[1].len THEN d[1].from + (i - 1) * d[1].step
  ELSE slot(Tail(d), i - d[1].len)

RECURSIVE take(_, _)
take(d, m) ==
  IF m <= 0 \/ d = <<>> THEN <<>>
  ELSE IF d[1].len <= m THEN <<d[1]>> \o take(Tail(d), m - d[1].len)
  ELSE <<Run(d[1].from, m, d[1].step)>>

RECURSIVE drop(_, _)
drop(d, m) ==
  IF m <= 0 \/ d = <<>> THEN d
  ELSE IF d[1].len <= m THEN drop(Tail(d), m - d[1].len)
  ELSE <<Run(d[1].from + m * d[1].step, d[1].len - m, d[1].step)>> \o Tail(d)

\* a slice bound i on a sequence of n items, as Python normalises it
SliceIndex(i, n) == IF i < 0 THEN Max(i + n, 0) ELSE Min(i, n)

\* data[a:b]: the frames the slice holds, in order
data_slice(a, b, n) ==
  LET lo == SliceIndex(a, n)
      hi == SliceIndex(b, n)
  IN  IF hi > lo THEN <<Run(lo, hi - lo, 1)>> ELSE <<>>

\* dst[a:b] = src: equal lengths, or a single row broadcast over the slots;
\* any other shape raises ValueError and leaves dst as it was
assign(d, a, b, src) ==
  LET n  == slots(d)
      lo == SliceIndex(a, n)
      hi == SliceIndex(b, n)
      k  == Max(hi - lo, 0)
  IN  IF slots(src) = k
      THEN [ok |-> TRUE, d |-> take(d, lo) \o src \o drop(d, lo + k)]
      ELSE IF slots(src) = 1
      THEN [ok |-> TRUE,
            d |-> take(d, lo) \o (IF k > 0 THEN <<Run(src[1].from, k, 0)>> ELSE <<>>)
                              \o drop(d, lo + k)]
      ELSE [ok |-> FALSE, d |-> d]

\* dst[a:] = 0
fill_zero(d, a) ==
  LET n  == slots(d)
      lo == SliceIndex(a, n)
  IN  take(d, lo) \o (IF n > lo THEN <<Run(Silence, n - lo, 0)>> ELSE <<>>)

(* --------------------------- pure functions ----------------------------- *)

\* The conversions to milliseconds compute int(frame / sample_rate * 1000) in
\* double precision.  When the exact quotient is a whole number the rounded one
\* can fall just short of it, and int() then gives one less: at 1000 Hz this
\* happens for the whole frames below (0 .. 16383); at the other sample rates
\* of the inputs it happens for none of their frames.
ShortQuotients(rate) ==
  IF rate = 1000
  THEN {
    1001, 1003, 1005, 1007, 1009, 1011, 1013, 1015, 1017, 1019, 1021, 1023,
    2002, 2006, 2010, 2014, 2018, 2022, 2026, 2030, 2034, 2038, 2042, 2046,
    4004, 4007, 4012, 4015, 4020, 4023, 4028, 4031, 4036, 4039, 4044, 4047,
    4052, 4055, 4060, 4063, 4068, 4071, 4076, 4079, 4084, 4087, 4092, 4095,
    8001, 8008, 8011, 8014, 8017, 8024, 8027, 8030, 8033, 8040, 8043, 8046,
    8049, 8056, 8059, 8062, 8065, 8072, 8075, 8078, 8081, 8088, 8091, 8094,
    8097, 8104, 8107, 8110, 8120, 8123, 8126, 8133, 8136, 8139, 8142, 8149,
    8152, 8155, 8158, 8165, 8168, 8171, 8174, 8181, 8184, 8187, 8190, 16002,
    16005, 16016, 16019, 16022, 16025, 16028, 16031, 16034, 16037, 16048,
    16051, 16054, 16057, 16060, 16063, 16066, 16069, 16080, 16083, 16086,
    16089, 16092, 16095, 16098, 16112, 16115, 16118, 16121, 16124, 16127,
    16130, 16141, 16144, 16147, 16150, 16153, 16156, 16159, 16162, 16173,
    16176, 16179, 16182, 16185, 16188, 16191, 16194, 16205, 16208, 16211,
    16214, 16217, 16220, 16223, 16237, 16240, 16243, 16246, 16249, 16252,
    16255, 16266, 16269, 16272, 16275, 16278, 16281, 16284, 16287, 16298,
    16301, 16304, 16307, 16310, 16313, 16316, 16319, 16330, 16333, 16336,
    16339, 16342, 16345, 16348, 16362, 16365, 16368, 16371, 16374, 16377,
    16380}
  ELSE {}

\* int(frame / rate * 1000) for the frame num / MsPerSec
ms_of(num, rate) ==
  LET exact == IntTrunc(num, rate)
      whole == IF num >= 0 THEN num \div MsPerSec ELSE (0 - num) \div MsPerSec
  IN  IF num % MsPerSec = 0 /\ whole \in ShortQuotients(rate)
      THEN (IF num >= 0 THEN exact - 1 ELSE exact + 1)
      ELSE exact

length(s) == ms_of(s.frames * MsPerSec, s.rate)

pos2frame(s, position) ==
  Max(0, Min(IntTrunc(s.rate * position, MsPerSec), s.frames - 1))

\* frame is a rational num / MsPerSec (the estimator's float)
frame2pos(s, num) == ms_of(num, s.rate)

\* estimate_frame extrapolating forward instead of backward
estimate_frame_forward(s, first, otime, time) ==
  first * MsPerSec + (otime - time) * s.rate

\* first_frame - dst * sample_rate with dst = output_time - stream.time,
\* as a numerator over MsPerSec
estimate_frame(s, first, otime, time) == first * MsPerSec - (otime - time) * s.rate

\* _region on one value of the marker list
region(frame, ms, s) ==
  IF Len(ms) = 0 THEN <<0, s.frames - 1>>
  ELSE LET hits == {ix \in 1..Len(ms) : pos2frame(s, ms[ix]) > frame}
       IN  IF hits = {} THEN <<pos2frame(s, ms[Len(ms)]), s.frames - 1>>
           ELSE LET right == CHOOSE ix \in hits : \A o \in hits : ix <= o
                IN  IF right = 1 THEN <<0, pos2frame(s, ms[1])>>
                    ELSE <<pos2frame(s, ms[right - 1]), pos2frame(s, ms[right])>>

\* lines 153-160: the copy of a looped block
loop_copy(first_frame, left, right, block, d, s) ==
  LET size == Min(block, right - first_frame + 1)
      last == first_frame + size - 1
      a1   == assign(d, 0, size, data_slice(first_frame, last + 1, s.frames))
      wrap == left + block - size - 1
      a2   == assign(a1.d, size, slots(d), data_slice(left, wrap + 1, s.frames))
  IN  IF ~a1.ok THEN [ok |-> FALSE, d |-> d, size |-> size, last_frame |-> last]
      ELSE IF size < block
      THEN [ok |-> a2.ok, d |-> a2.d, size |-> size, last_frame |-> wrap]
      ELSE [ok |-> TRUE, d |-> a1.d, size |-> size, last_frame |-> last]

\* plain_copy recording the frame after the last one copied as last_frame
plain_copy_skip(first_frame, block, d, s) ==
  LET size == Min(block, s.frames - first_frame)
      last == first_frame + size
      a1   == assign(d, 0, size, data_slice(first_frame, first_frame + size, s.frames))
  IN  [ok |-> a1.ok, d |-> a1.d, size |-> size, last_frame |-> last]

\* plain_copy forgetting the last remaining frame
plain_copy_short(first_frame, block, d, s) ==
  LET size == Min(block, s.frames - first_frame - 1)
      last == first_frame + size - 1
      a1   == assign(d, 0, size, data_slice(first_frame, last + 1, s.frames))
  IN  [ok |-> a1.ok, d |-> a1.d, size |-> size, last_frame |-> last]

\* lines 165-167: the copy of a block without loop
plain_copy(first_frame, block, d, s) ==
  LET size == Min(block, s.frames - first_frame)
      last == first_frame + size - 1
      a1   == assign(d, 0, size, data_slice(first_frame, last + 1, s.frames))
  IN  [ok |-> a1.ok, d |-> a1.d, size |-> size, last_frame |-> last]

\* set_marker without the test "self._markers[ix] != position"
set_marker_always(ms, position) ==
  LET hits == {ix \in 1..Len(ms) : ms[ix] >= position}
  IN  IF hits = {} THEN Append(ms, position)
      ELSE LET ix == CHOOSE i \in hits : \A o \in hits : i <= o
           IN  SubSeq(ms, 1, ix - 1) \o <<position>> \o SubSeq(ms, ix, Len(ms))

\* set_marker on a sorted list
set_marker(ms, position) ==
  LET hits == {ix \in 1..Len(ms) : ms[ix] >= position}
  IN  IF hits = {} THEN Append(ms, position)
      ELSE LET ix == CHOOSE i \in hits : \A o \in hits : i <= o
           IN  IF ms[ix] # position
               THEN SubSeq(ms, 1, ix - 1) \o <<position>> \o SubSeq(ms, ix, Len(ms))
               ELSE ms

\* unset_marker removing the first marker at or after position
unset_marker_nearest(ms, position) ==
  LET hits == {ix \in 1..Len(ms) : ms[ix] >= position}
  IN  IF hits = {} THEN ms
      ELSE LET ix == CHOOSE i \in hits : \A o \in hits : i <= o
           IN  SubSeq(ms, 1, ix - 1) \o SubSeq(ms, ix + 1, Len(ms))

\* list.remove: the first item equal to position; ValueError when there is none
unset_marker(ms, position) ==
  LET hits == {ix \in 1..Len(ms) : ms[ix] = position}
  IN  IF hits = {} THEN ms
      ELSE LET ix == CHOOSE i \in hits : \A o \in hits : i <= o
           IN  SubSeq(ms, 1, ix - 1) \o SubSeq(ms, ix + 1, Len(ms))

\* Audio.frame_at without its assertion: np.clip, then int()
frame_at(s, position) ==
  IF s.rate * position < 0 THEN 0
  ELSE Min(IntTrunc(s.rate * position, MsPerSec), s.frames - 1)

\* the assertion of frame_at
frame_at_ok(s, position) == 0 <= position /\ position <= length(s)

\* position_at returning seconds
position_at_seconds(s, frame) == IntTrunc(frame, s.rate)

\* Audio.position_at without its assertion
position_at(s, frame) == ms_of(frame * MsPerSec, s.rate)

\* the index first_true stops at in section_at: the first marker whose frame
\* is after the frame, or whose position fails the assertion of frame_at;
\* 0 when it runs through the list
section_stop(s, ms, frame) ==
  LET hits == {ix \in 1..Len(ms) :
                 ~frame_at_ok(s, ms[ix]) \/ frame_at(s, ms[ix]) > frame}
  IN  IF hits = {} THEN 0 ELSE CHOOSE ix \in hits : \A o \in hits : ix <= o

\* section_at taking the marker before the one found as the right bound
section_at_before(s, ms, frame) ==
  LET ix == section_stop(s, ms, frame)
  IN  IF Len(ms) = 0 THEN [raised |-> "", left |-> <<0>>, right |-> <<s.frames - 1>>]
      ELSE IF ix = 0
      THEN [raised |-> "", left |-> <<frame_at(s, ms[Len(ms)])>>, right |-> <<>>]
      ELSE IF ~frame_at_ok(s, ms[ix])
      THEN [raised |-> "AssertionError", left |-> <<>>, right |-> <<>>]
      ELSE IF ix = 1
      THEN [raised |-> "", left |-> <<>>, right |-> <<frame_at(s, ms[1])>>]
      ELSE [raised |-> "", left |-> <<frame_at(s, ms[ix - 1])>>,
            right |-> <<frame_at(s, ms[ix - 1])>>]

\* Audio.section_at: a bound is <<frame>>, or <<>> for None
section_at(s, ms, frame) ==
  LET ix == section_stop(s, ms, frame)
  IN  IF Len(ms) = 0 THEN [raised |-> "", left |-> <<0>>, right |-> <<s.frames - 1>>]
      ELSE IF ix = 0
      THEN [raised |-> "", left |-> <<frame_at(s, ms[Len(ms)])>>, right |-> <<>>]
      ELSE IF ~frame_at_ok(s, ms[ix])
      THEN [raised |-> "AssertionError", left |-> <<>>, right |-> <<>>]
      ELSE IF ix = 1
      THEN [raised |-> "", left |-> <<>>, right |-> <<frame_at(s, ms[1])>>]
      ELSE [raised |-> "", left |-> <<frame_at(s, ms[ix - 1])>>,
            right |-> <<frame_at(s, ms[ix])>>]

(* ------------------------------- state ---------------------------------- *)

VARIABLES
  sound,      \* Sound: the frame count and the sample rate
  markers,    \* Params.markers
  loop,       \* Params.loop
  mode,       \* "Pausing" or "Playing": the type of the value the host holds
  position,   \* Pausing.position, and Playing._start_position once started
  state,      \* State: buff_first_frame, buff_last_frame, buff_output_time
  stream,     \* the OutputStream: "none", "active", "finished", "aborted", "closed"
  now,        \* stream.time
  cb,         \* the audio thread: the callback's position and locals
  dst,        \* the output buffer handed to the callback
  ctl,        \* the control thread: the position and locals of a query or stop
  est,        \* what the position query just returned, and from which reads;
              \* forgotten when the control thread begins its next operation
  ncb,        \* callbacks the device has invoked: the serial number of the last one
  ticks,      \* advances of the clock so far
  ops,        \* control operations so far
  tags,       \* who wrote each field of State: a callback's serial, 0: start, -1: seek
  seeked,     \* a seek has happened since start
  mhist,      \* the values params.markers took during the running section lookup
  section,    \* the section the running loop started in, <<>> when there is none
  stops,      \* CallbackStop raised since start
  main,       \* the Playback of src/main.py: its stream, state.frame, info.started_at
  audio,      \* the Audio of src/audio.py: its markers and the last method call
  played,     \* the output buffers of the callbacks returned since start, in order
  target      \* <<frame>> a seek stored that no callback has read yet, else <<>>

vars == <<sound, markers, loop, mode, position, state, stream, now, cb, dst,
          ctl, est, ncb, ticks, ops, tags, seeked, mhist, section, stops, main,
          audio, played, target>>

\* nothing played yet; and the record of a run that a seek, a toggle of the loop
\* flag or a looped callback has interrupted
Played0 == [ok |-> TRUE, first |-> <<>>, runs |-> <<>>]
Untracked == [ok |-> FALSE, first |-> <<>>, runs |-> <<>>]

\* runs a followed by run r, adjacent runs of consecutive frames or of the same
\* fill joined into one
join(a, r) ==
  IF a = <<>> THEN <<r>>
  ELSE LET l == a[Len(a)]
       IN  IF \/ l.step = 1 /\ r.step = 1 /\ r.from = l.from + l.len
              \/ l.step = 0 /\ r.step = 0 /\ r.from = l.from
           THEN SubSeq(a, 1, Len(a) - 1) \o <<Run(l.from, l.len + r.len, l.step)>>
           ELSE Append(a, r)

RECURSIVE joined(_, _)
joined(a, d) == IF d = <<>> THEN a ELSE joined(join(a, d[1]), Tail(d))

\* the buffer d of a callback that returned, added to what was played; first is
\* the first_frame of the first callback
play(p, d, looped, first_frame) ==
  IF ~p.ok \/ looped THEN Untracked
  ELSE [ok |-> TRUE,
        first |-> IF p.first = <<>> THEN <<first_frame>> ELSE p.first,
        runs |-> joined(p.runs, d)]

\* State(buff_last_frame=-1, buff_first_frame=-1, buff_output_time=-1.0)
State0 == [first |-> 0 - 1, last |-> 0 - 1, otime |-> 0 - MsPerSec]
Tags0 == [first |-> 0, last |-> 0, otime |-> 0]

CbIdle == [pc |-> "idle", outcome |-> "none", exc |-> "", block |-> 0, time |-> 0,
           initial |-> FALSE, loop |-> FALSE, first_frame |-> 0, n |-> 0, ix |-> 0, left |-> 0,
           right |-> 0, size |-> 0, last_frame |-> 0, clean |-> TRUE, sought |-> <<>>]

CtlIdle == [pc |-> "idle", op |-> "", otime |-> 0, time |-> 0, timeBy |-> 0]

NoEstimate == [valid |-> FALSE, unknown |-> FALSE, otime |-> 0, time |-> 0,
               first |-> 0, num |-> 0, pos |-> 0, firstBy |-> 0, timeBy |-> 0]

\* main.py, prepare(sound, sample_rate): PlaybackState(0), started_at 0.0 and a
\* stream that has not been started; starts and calls count the successful
\* stream.start() calls and the callbacks, raised is the exception the last
\* operation ended with
MainIdle == [stream |-> "stopped", frame |-> 0, started_at |-> 0, dst |-> <<>>,
             starts |-> 0, calls |-> 0, raised |-> ""]

\* Audio(data, sample_rate, []): no markers, no method called yet.  op, arg and
\* raised describe the last call, prev the markers before it, pos and back the
\* results of position_at and of frame_at on it, lookups the results of the
\* last two section_at calls since the markers changed
AudioIdle == [markers |-> <<>>, op |-> "", arg |-> 0, prev |-> <<>>, raised |-> "",
              pos |-> 0, back |-> 0, lookups |-> <<>>]

\* the marker lists a host can construct Params with: sorted, inside (0, length)
InitMarkers(s) ==
  {<<>>} \cup {pq \in MarkerPositions(s) \X MarkerPositions(s) : pq[1] < pq[2]}

\* prepare(data, sample_rate, start_time, params)
Init ==
  /\ sound \in Sounds
  /\ markers \in InitMarkers(sound)
  /\ loop \in BOOLEAN
  /\ mode = "Pausing"
  /\ position \in StartPositions(sound)
  /\ state = State0
  /\ stream = "none"
  /\ now = ClockOrigin(sound)
  /\ cb = CbIdle
  /\ dst = <<>>
  /\ ctl = CtlIdle
  /\ est = NoEstimate
  /\ ncb = 0
  /\ ticks = 0
  /\ ops = 0
  /\ tags = Tags0
  /\ seeked = FALSE
  /\ mhist = {}
  /\ section = <<>>
  /\ stops = 0
  /\ main = MainIdle
  /\ audio = AudioIdle
  /\ played = Played0
  /\ target = <<>>

(* --------------------------- the audio thread --------------------------- *)

HostVars == <<sound, markers, loop, mode, position, now, ctl, est, ticks, ops, seeked, main,
              audio>>

\* the device invokes callback(dst, block_size, time, status); line 135:
\* first_frame = state.buff_last_frame + 1
invoke(limit) ==
  /\ stream = "active"
  /\ cb.pc = "idle"
  /\ ncb < limit
  /\ \E b \in Blocks(sound), lat \in Latencies(sound) :
       /\ cb' = [CbIdle EXCEPT !.pc = "l151", !.block = b, !.time = now + lat,
                                !.first_frame = state.last + 1,
                                !.initial = (tags.first = 0 /\ tags.last = 0),
                                !.sought = target]
       /\ dst' = <<Run(Unwritten, b, 0)>>
  /\ ncb' = ncb + 1
  /\ mhist' = {}
  /\ target' = <<>>
  /\ UNCHANGED <<state, stream, tags, section>>
  /\ UNCHANGED <<HostVars, stops, played>>

CbInvoke == invoke(MaxCallbacks)

\* the same invocation on a stream the host leaves alone
CbInvokePlain == invoke(MaxPlain)

\* an exception other than CallbackStop leaves the callback: the stream aborts
raise(c, exc, d) ==
  /\ cb' = [c EXCEPT !.pc = "idle", !.outcome = "error", !.exc = exc]
  /\ dst' = d
  /\ stream' = "aborted"
  /\ section' = <<>>
  /\ UNCHANGED <<state, ncb, tags>>

\* line 151: if params.loop; without loop, lines 165-167
CbLoopTest ==
  /\ cb.pc = "l151"
  /\ IF loop
     THEN /\ cb' = [cb EXCEPT !.pc = "l204", !.loop = TRUE]
          /\ UNCHANGED <<dst, state, stream, ncb, tags, section>>
     ELSE LET c == plain_copy(cb.first_frame, cb.block, dst, sound)
          IN  IF c.ok
              THEN /\ cb' = [cb EXCEPT !.pc = "l168", !.size = c.size,
                                       !.last_frame = c.last_frame]
                   /\ dst' = c.d
                   /\ UNCHANGED <<state, stream, ncb, tags, section>>
              ELSE raise([cb EXCEPT !.size = c.size], "ValueError", c.d)
  /\ UNCHANGED mhist
  /\ UNCHANGED <<HostVars, stops, played, target>>

\* copy_looped testing params.loop again before it copies
copy_looped_reread(left, right) ==
  LET c  == IF loop THEN loop_copy(cb.first_frame, left, right, cb.block, dst, sound)
            ELSE plain_copy(cb.first_frame, cb.block, dst, sound)
      c1 == [cb EXCEPT !.left = left, !.right = right, !.size = c.size]
  IN  IF c.ok
      THEN /\ cb' = [c1 EXCEPT !.pc = "l161", !.last_frame = c.last_frame]
           /\ dst' = c.d
           /\ UNCHANGED <<state, stream, ncb, tags, section>>
      ELSE raise(c1, "ValueError", c.d)

\* _region has returned (left, right): lines 153-160
copy_looped(left, right) ==
  LET c  == loop_copy(cb.first_frame, left, right, cb.block, dst, sound)
      c1 == [cb EXCEPT !.left = left, !.right = right, !.size = c.size]
  IN  IF c.ok
      THEN /\ cb' = [c1 EXCEPT !.pc = "l161", !.last_frame = c.last_frame]
           /\ dst' = c.d
           /\ UNCHANGED <<state, stream, ncb, tags, section>>
      ELSE raise(c1, "ValueError", c.d)

\* lines 204-208: len(markers) == 0, else range(len(markers))
RegionLen ==
  /\ cb.pc = "l204"
  /\ IF Len(markers) = 0
     THEN copy_looped(0, sound.frames - 1)
     ELSE /\ cb' = [cb EXCEPT !.pc = "l209", !.n = Len(markers), !.ix = 0]
          /\ UNCHANGED <<dst, state, stream, ncb, tags, section>>
  /\ mhist' = {markers}
  /\ UNCHANGED <<HostVars, stops, played, target>>

\* line 209: the predicate on the next index, _pos2frame(sound, markers[ix]) > frame
RegionPred ==
  /\ cb.pc = "l209"
  /\ IF cb.ix >= cb.n
     THEN /\ cb' = [cb EXCEPT !.pc = "l214"]
          /\ UNCHANGED <<dst, state, stream, ncb, tags, section>>
     ELSE IF cb.ix >= Len(markers)
     THEN raise(cb, "IndexError", dst)
     ELSE IF pos2frame(sound, markers[cb.ix + 1]) > cb.first_frame
     THEN /\ cb' = [cb EXCEPT !.pc = IF cb.ix = 0 THEN "l216" ELSE "l219"]
          /\ UNCHANGED <<dst, state, stream, ncb, tags, section>>
     ELSE /\ cb' = [cb EXCEPT !.ix = cb.ix + 1]
          /\ UNCHANGED <<dst, state, stream, ncb, tags, section>>
  /\ UNCHANGED mhist
  /\ UNCHANGED <<HostVars, stops, played, target>>

\* line 214: right is None, (markers[-1], len(sound.data) - 1)
RegionLast ==
  /\ cb.pc = "l214"
  /\ IF Len(markers) = 0
     THEN raise(cb, "IndexError", dst)
     ELSE copy_looped(pos2frame(sound, markers[Len(markers)]), sound.frames - 1)
  /\ UNCHANGED mhist
  /\ UNCHANGED <<HostVars, stops, played, target>>

\* line 216: right == 0, (0, markers[0])
RegionFirst ==
  /\ cb.pc = "l216"
  /\ IF Len(markers) = 0
     THEN raise(cb, "IndexError", dst)
     ELSE copy_looped(0, pos2frame(sound, markers[1]))
  /\ UNCHANGED mhist
  /\ UNCHANGED <<HostVars, stops, played, target>>

\* line 219: markers[right - 1]
RegionLeft ==
  /\ cb.pc = "l219"
  /\ IF cb.ix > Len(markers)
     THEN raise(cb, "IndexError", dst)
     ELSE /\ cb' = [cb EXCEPT !.pc = "l220", !.left = pos2frame(sound, markers[cb.ix])]
          /\ UNCHANGED <<dst, state, stream, ncb, tags, section>>
  /\ UNCHANGED mhist
  /\ UNCHANGED <<HostVars, stops, played, target>>

\* line 220: markers[right]
RegionRight ==
  /\ cb.pc = "l220"
  /\ IF cb.ix >= Len(markers)
     THEN raise(cb, "IndexError", dst)
     ELSE copy_looped(cb.left, pos2frame(sound, markers[cb.ix + 1]))
  /\ UNCHANGED mhist
  /\ UNCHANGED <<HostVars, stops, played, target>>

\* lines 161 and 168: state.buff_first_frame = first_frame
CbStoreFirst ==
  /\ cb.pc \in {"l161", "l168"}
  /\ state' = [state EXCEPT !.first = cb.first_frame]
  /\ tags' = [tags EXCEPT !.first = ncb]
  /\ cb' = [cb EXCEPT !.pc = IF cb.pc = "l161" THEN "l162" ELSE "l169"]
  /\ UNCHANGED <<dst, stream, ncb, mhist, section>>
  /\ UNCHANGED <<HostVars, stops, played, target>>

\* the section a run of looped callbacks stays in: taken from the first looped
\* callback that no control operation interleaved with, dropped by any callback
\* that does not loop or asks for more frames than the section holds
next_section ==
  IF ~cb.loop \/ ~cb.clean THEN <<>>
  ELSE LET sec == IF section = <<>> THEN <<cb.left, cb.right>> ELSE section
       IN  IF cb.block <= sec[2] - sec[1] + 1 THEN sec ELSE <<>>

\* lines 162 and 169: state.buff_last_frame = last_frame; without loop, lines
\* 170-172: if size < block_size, zero-fill and raise CallbackStop
CbStoreLast ==
  /\ cb.pc \in {"l162", "l169"}
  /\ state' = [state EXCEPT !.last = cb.last_frame]
  /\ tags' = [tags EXCEPT !.last = ncb]
  /\ section' = next_section
  /\ IF cb.pc = "l169" /\ cb.size < cb.block
     THEN /\ dst' = fill_zero(dst, cb.size)
          /\ cb' = [cb EXCEPT !.pc = "idle", !.outcome = "stop"]
          /\ stream' = "finished"
          /\ stops' = stops + 1
          /\ played' = play(played, fill_zero(dst, cb.size), cb.loop, cb.first_frame)
     ELSE /\ cb' = [cb EXCEPT !.pc = "l80"]
          /\ UNCHANGED <<dst, stream, stops, played>>
  /\ UNCHANGED <<ncb, mhist, target>>
  /\ UNCHANGED HostVars

\* line 80: pl._state.buff_output_time = time.outputBufferDacTime
CbStoreTime ==
  /\ cb.pc = "l80"
  /\ state' = [state EXCEPT !.otime = cb.time]
  /\ tags' = [tags EXCEPT !.otime = ncb]
  /\ cb' = [cb EXCEPT !.pc = "idle", !.outcome = "continue"]
  /\ played' = play(played, dst, cb.loop, cb.first_frame)
  /\ UNCHANGED <<dst, stream, ncb, mhist, section>>
  /\ UNCHANGED <<HostVars, stops, target>>

Callback ==
  \/ CbInvoke \/ CbLoopTest
  \/ RegionLen \/ RegionPred \/ RegionLast \/ RegionFirst \/ RegionLeft \/ RegionRight
  \/ CbStoreFirst \/ CbStoreLast \/ CbStoreTime

(* -------------------------- the control thread -------------------------- *)

\* a control operation that interleaves with a running callback
touched == IF cb.pc = "idle" THEN cb ELSE [cb EXCEPT !.clean = FALSE]

\* the control thread may take a step
Scheduled == cb.pc = "idle" \/ Interleaved(sound)

InLookup == cb.pc \in {"l209", "l214", "l216", "l219", "l220"}

\* start(pb: Pausing) -> Playing, lines 63-90
start ==
  /\ mode = "Pausing"
  /\ ctl.pc = "idle"
  /\ mode' = "Playing"
  /\ state' = State0
  /\ tags' = Tags0
  /\ stream' = "active"
  /\ cb' = CbIdle
  /\ dst' = <<>>
  /\ seeked' = FALSE
  /\ section' = <<>>
  /\ mhist' = {}
  /\ est' = NoEstimate
  /\ stops' = 0
  /\ played' = Played0
  /\ target' = <<>>
  /\ UNCHANGED <<sound, markers, loop, position, now, ctl, ncb, ticks, ops, main, audio>>

\* line 117, first operand: pb._state.buff_output_time; a query, or the
\* estimate stop() takes at line 94
EstimateOutputTime ==
  /\ mode = "Playing"
  /\ ctl.pc = "idle"
  /\ ops < MaxOps
  /\ Scheduled
  /\ \E op \in {"query", "stop"} :
       ctl' = [pc |-> "l117", op |-> op, otime |-> state.otime, time |-> 0,
               timeBy |-> tags.otime]
  /\ ops' = ops + 1
  /\ est' = NoEstimate
  /\ UNCHANGED <<sound, markers, loop, mode, position, state, stream, now, cb, dst,
                 ncb, ticks, tags, seeked, mhist, section, stops, main, audio, played, target>>

\* line 117, second operand: pb._stream.time
EstimateStreamTime ==
  /\ ctl.pc = "l117"
  /\ Scheduled
  /\ ctl' = [ctl EXCEPT !.pc = "l118", !.time = now]
  /\ UNCHANGED <<sound, markers, loop, mode, position, state, stream, now, cb, dst,
                 est, ncb, ticks, ops, tags, seeked, mhist, section, stops, main, audio, played, target>>

\* lines 118 and 113: pb._state.buff_first_frame - dst * sample_rate, _frame2pos
estimate_current_position(first, firstBy) ==
  LET num == estimate_frame(sound, first, ctl.otime, ctl.time)
  IN  [valid |-> TRUE, unknown |-> FALSE, otime |-> ctl.otime, time |-> ctl.time,
       first |-> first, num |-> num, pos |-> frame2pos(sound, num),
       firstBy |-> firstBy, timeBy |-> ctl.timeBy]

EstimateFirstFrame ==
  /\ ctl.pc = "l118"
  /\ Scheduled
  /\ est' = estimate_current_position(state.first, tags.first)
  /\ ctl' = IF ctl.op = "stop" THEN [ctl EXCEPT !.pc = "l95"] ELSE CtlIdle
  /\ UNCHANGED <<sound, markers, loop, mode, position, state, stream, now, cb, dst,
                 ncb, ticks, ops, tags, seeked, mhist, section, stops, main, audio, played, target>>

\* stop(pb: Playing) -> Pausing, lines 95-104: stream.stop() returns when the
\* callback is not running, then close and prepare(..., start_time, ...)
stop ==
  /\ ctl.pc = "l95"
  /\ cb.pc = "idle"
  /\ stream' = "closed"
  /\ mode' = "Pausing"
  /\ position' = est.pos
  /\ ctl' = CtlIdle
  /\ section' = <<>>
  /\ UNCHANGED <<sound, markers, loop, state, now, cb, dst, est, ncb, ticks, ops,
                 tags, seeked, mhist, stops, main, audio, played, target>>

\* seek(pb, position), lines 121-125
seek ==
  /\ mode = "Playing"
  /\ ctl.pc = "idle"
  /\ ops < MaxOps
  /\ Scheduled
  /\ \E p \in SeekPositions(sound) :
       LET clamped == Max(0, Min(p, length(sound)))
       IN  /\ position' = clamped
           /\ state' = [state EXCEPT !.last = pos2frame(sound, clamped)]
           /\ target' = <<pos2frame(sound, clamped)>>
  /\ played' = Untracked
  /\ tags' = [tags EXCEPT !.last = 0 - 1]
  /\ seeked' = TRUE
  /\ section' = <<>>
  /\ cb' = touched
  /\ ops' = ops + 1
  /\ est' = NoEstimate
  /\ UNCHANGED <<sound, markers, loop, mode, stream, now, dst, ctl, ncb, ticks,
                 mhist, stops, main, audio>>

\* the host sets params.loop while the engine plays (Init covers the values
\* params can have before start)
set_loop ==
  /\ mode = "Playing"
  /\ ctl.pc = "idle"
  /\ ops < MaxOps
  /\ Scheduled
  /\ loop' = ~loop
  /\ played' = Untracked
  /\ section' = <<>>
  /\ cb' = touched
  /\ ops' = ops + 1
  /\ est' = NoEstimate
  /\ UNCHANGED <<sound, markers, mode, position, state, stream, now, dst, ctl,
                 ncb, ticks, tags, seeked, mhist, stops, main, audio, target>>

edit_markers(ms) ==
  /\ markers' = ms
  /\ mhist' = IF InLookup THEN mhist \cup {ms} ELSE mhist
  /\ section' = <<>>
  /\ cb' = touched
  /\ ops' = ops + 1
  /\ est' = NoEstimate
  /\ UNCHANGED <<sound, loop, mode, position, state, stream, now, dst, ctl,
                 ncb, ticks, tags, seeked, stops, main, audio, played, target>>

SetMarker ==
  /\ mode = "Playing"
  /\ ctl.pc = "idle"
  /\ ops < MaxOps
  /\ Scheduled
  /\ \E p \in MarkerPositions(sound) : edit_markers(set_marker(markers, p))

UnsetMarker ==
  /\ mode = "Playing"
  /\ ctl.pc = "idle"
  /\ ops < MaxOps
  /\ Scheduled
  /\ \E p \in MarkerPositions(sound) : edit_markers(unset_marker(markers, p))

\* the stream clock advances by one callback period; the device invokes the
\* callback at that cadence, so the clock is never more than one period ahead
\* of the callbacks delivered.  The clock is read when the device invokes the
\* callback and at line 117; an advance commutes with every other step, so it
\* is taken only where one of the two reads can follow it
Tick ==
  /\ ticks <= ncb
  /\ \/ ctl.pc = "l117" /\ Scheduled
     \/ ctl.pc = "idle" /\ cb.pc = "idle"
  /\ now' = now + Quantum(sound)
  /\ ticks' = ticks + 1
  /\ UNCHANGED <<sound, markers, loop, mode, position, state, stream, cb, dst, ctl,
                 est, ncb, ops, tags, seeked, mhist, section, stops, main, audio, played, target>>

(* ------------------------- the engine of main.py ----------------------- *)

MainStartFrames(s) == IF s = Example THEN {0, 9990, 10000} ELSE {0, 3, 6}

PlaybackVars == <<markers, loop, mode, position, state, stream, cb, dst, ctl, est,
                  ncb, ticks, ops, tags, seeked, mhist, section, stops,
                  audio, played, target>>

\* start without "assert not pb.stream.active"
main_start_asserts_active_ok(m, start_frame, s) ==
  /\ 0 <= start_frame /\ start_frame < s.frames
  /\ m.stream # "closed"

\* lines 48-50 of start: the assertions on start_frame and on the stream;
\* stream.active is False on a stream that finished or was closed
main_start_asserts(m, start_frame, s) ==
  /\ 0 <= start_frame /\ start_frame < s.frames
  /\ m.stream # "active"
  /\ m.stream # "closed"

\* start(pb, start_frame), lines 47-53: stream.start() raises PortAudioError on
\* a stream that is not stopped (active, finished by CallbackStop) or closed
main_start ==
  /\ \E start_frame \in MainStartFrames(sound) :
       IF ~main_start_asserts(main, start_frame, sound)
       THEN main' = [main EXCEPT !.raised = "AssertionError"]
       ELSE IF main.stream = "stopped"
       THEN main' = [main EXCEPT !.frame = start_frame, !.stream = "active",
                                 !.started_at = now, !.starts = main.starts + 1,
                                 !.raised = ""]
       ELSE main' = [main EXCEPT !.frame = start_frame, !.raised = "PortAudioError"]
  /\ UNCHANGED <<sound, now, PlaybackVars>>

\* stop(pb), lines 56-60
main_stop ==
  /\ IF main.stream # "active"
     THEN main' = [main EXCEPT !.raised = "AssertionError"]
     ELSE main' = [main EXCEPT !.stream = "closed", !.raised = ""]
  /\ UNCHANGED <<sound, now, PlaybackVars>>

\* next_block, lines 67-80
main_next_block(m, block_size, s) ==
  LET d0    == <<Run(Unwritten, block_size, 0)>>
      block == Min(block_size, s.frames - m.frame)
      a1    == assign(d0, 0, block, data_slice(m.frame, m.frame + block, s.frames))
  IN  IF block < block_size
      THEN [m EXCEPT !.dst = fill_zero(a1.d, block), !.stream = "finished", !.raised = ""]
      ELSE [m EXCEPT !.dst = a1.d, !.frame = m.frame + block, !.raised = ""]

\* the device invokes callback(dst, frames, ...), lines 34-35
main_callback ==
  /\ main.stream = "active"
  /\ main.calls < MaxCallbacks
  /\ \E b \in Blocks(sound) :
       main' = [main_next_block(main, b, sound) EXCEPT !.calls = main.calls + 1]
  /\ UNCHANGED <<sound, now, PlaybackVars>>

(* ------------------------- the Audio of audio.py ----------------------- *)

EngineVars == <<markers, loop, mode, position, state, stream, now, cb, dst, ctl, est,
                ncb, ticks, ops, tags, seeked, mhist, section, stops, main,
                played, target>>

\* Audio.set_marker(position), lines 48-57
audio_set_marker ==
  /\ \E p \in AudioPositions(sound) :
       audio' = [audio EXCEPT !.op = "set_marker", !.arg = p, !.prev = audio.markers,
                              !.markers = set_marker(audio.markers, p),
                              !.raised = "", !.lookups = <<>>]
  /\ UNCHANGED <<sound, EngineVars>>

\* Audio.unset_marker(position), lines 59-60: list.remove raises ValueError
\* when no item equals position
audio_unset_marker ==
  /\ \E p \in AudioPositions(sound) :
       LET found == \E ix \in 1..Len(audio.markers) : audio.markers[ix] = p
       IN  audio' = [audio EXCEPT !.op = "unset_marker", !.arg = p,
                                  !.prev = audio.markers,
                                  !.markers = unset_marker(audio.markers, p),
                                  !.raised = IF found THEN "" ELSE "ValueError",
                                  !.lookups = <<>>]
  /\ UNCHANGED <<sound, EngineVars>>

\* Audio.section_at(frame), lines 62-81
audio_section_at ==
  /\ \E f \in AudioFrames(sound) :
       LET r    == section_at(sound, audio.markers, f)
           look == [frame |-> f, left |-> r.left, right |-> r.right]
           kept == IF audio.lookups = <<>> THEN <<>>
                   ELSE <<audio.lookups[Len(audio.lookups)]>>
       IN  audio' = [audio EXCEPT !.op = "section_at", !.arg = f,
                                  !.prev = audio.markers, !.raised = r.raised,
                                  !.lookups = IF r.raised = "" THEN Append(kept, look)
                                              ELSE kept]
  /\ UNCHANGED <<sound, EngineVars>>

\* frame_at(position_at(frame)), lines 34-46, with the assertions of both
audio_round_trip ==
  /\ \E f \in AudioFrames(sound) :
       LET pos == position_at(sound, f)
       IN  IF ~(0 <= f /\ f < sound.frames) \/ ~frame_at_ok(sound, pos)
           THEN audio' = [audio EXCEPT !.op = "round_trip", !.arg = f,
                                       !.prev = audio.markers,
                                       !.raised = "AssertionError"]
           ELSE audio' = [audio EXCEPT !.op = "round_trip", !.arg = f,
                                       !.prev = audio.markers, !.raised = "",
                                       !.pos = pos, !.back = frame_at(sound, pos)]
  /\ UNCHANGED <<sound, EngineVars>>

(* ---------------------------- specifications --------------------------- *)

\* The host edits the session while the engine plays: seek, the loop flag, the
\* markers.  Position queries write nothing the callback reads and are left to
\* SpecQuery.
Next ==
  \/ Callback \/ Tick
  \/ start \/ seek \/ set_loop \/ SetMarker \/ UnsetMarker

Spec == Init /\ [][Next]_vars

\* The host asks for the position, stops and resumes, and seeks.
NextQuery ==
  \/ Callback \/ Tick
  \/ start \/ seek
  \/ EstimateOutputTime \/ EstimateStreamTime \/ EstimateFirstFrame \/ stop

SpecQuery == Init /\ [][NextQuery]_vars

\* main.py: one engine on its own stream.
InitMain ==
  /\ sound \in Sounds
  /\ main = MainIdle
  /\ now = ClockOrigin(sound)
  /\ markers = <<>> /\ loop = FALSE /\ mode = "Pausing" /\ position = 0
  /\ state = State0 /\ stream = "none" /\ cb = CbIdle /\ dst = <<>>
  /\ ctl = CtlIdle /\ est = NoEstimate /\ ncb = 0 /\ ticks = 0 /\ ops = 0
  /\ tags = Tags0 /\ seeked = FALSE /\ mhist = {} /\ section = <<>> /\ stops = 0
  /\ audio = AudioIdle /\ played = Played0 /\ target = <<>>

NextMain == main_start \/ main_stop \/ main_callback \/ Tick

SpecMain == InitMain /\ [][NextMain]_vars

\* The host starts a stream without loop and leaves it alone until the data ends.
InitPlain == Init /\ ~loop

NextPlain ==
  \/ start \/ Tick
  \/ CbInvokePlain \/ CbLoopTest \/ CbStoreFirst \/ CbStoreLast \/ CbStoreTime

SpecPlain == InitPlain /\ [][NextPlain]_vars

\* audio.py: one Audio, its markers edited and its lookups and conversions
\* called in any order.
InitAudio ==
  /\ sound \in AudioSounds
  /\ audio = AudioIdle
  /\ now = 0 /\ main = MainIdle
  /\ markers = <<>> /\ loop = FALSE /\ mode = "Pausing" /\ position = 0
  /\ state = State0 /\ stream = "none" /\ cb = CbIdle /\ dst = <<>>
  /\ ctl = CtlIdle /\ est = NoEstimate /\ ncb = 0 /\ ticks = 0 /\ ops = 0
  /\ tags = Tags0 /\ seeked = FALSE /\ mhist = {} /\ section = <<>> /\ stops = 0
  /\ played = Played0 /\ target = <<>>

NextAudio == audio_set_marker \/ audio_unset_marker \/ audio_section_at \/ audio_round_trip

SpecAudio == InitAudio /\ [][NextAudio]_vars

(* ------------------------------- claims --------------------------------- *)

\* the callback has returned or raised, and no control operation ran during it
Returned == cb.pc = "idle" /\ cb.outcome # "none"
Undisturbed == Returned /\ cb.clean

AllWritten(d) == \A i \in 1..Len(d) : d[i].from # Unwritten

\* C1: every invocation of the callback leaves exactly block_size slots of the
\* output buffer written (frames or zero fill), with and without loop, also
\* when the loop section is shorter than block_size and when first_frame is
\* the frame count.  Stated for the callbacks no control operation ran during.
C1_WritesRequestedSize ==
  Undisturbed => slots(dst) = cb.block /\ AllWritten(dst)

InRange(d, lo, hi) ==
  \A i \in 1..Len(d) :
    /\ d[i].from >= lo
    /\ d[i].from + (d[i].len - 1) * d[i].step <= hi

\* C2: looping stays inside one section: while loop is on, the markers are
\* unchanged, nothing seeks and every block fits the section, every frame a
\* callback writes lies in the section that held the first looped callback's
\* first_frame.
C2_LoopStaysInSection ==
  (cb.pc \in {"l80", "idle"} /\ cb.loop /\ cb.exc = "" /\ section # <<>>)
    => InRange(dst, section[1], section[2])

\* C3: without loop, a callback with fewer than block_size frames left from
\* first_frame copies the frames - first_frame remaining frames into the
\* leading slots, zero-fills the rest, records last_frame = first_frame + size - 1
\* and raises CallbackStop; a callback with size = block_size copies block_size
\* frames and does not raise it; a stream raises CallbackStop at most once, and
\* exactly once when it has finished.
C3_NonLoopEnd ==
  /\ stops <= 1
  /\ stream = "finished" <=> stops = 1
  /\ (Returned /\ ~cb.loop /\ cb.first_frame <= sound.frames) =>
       LET rem == sound.frames - cb.first_frame
       IN  /\ slots(dst) = cb.block
           /\ cb.size = Min(rem, cb.block)
           /\ cb.last_frame = cb.first_frame + cb.size - 1
           /\ \A i \in 1..cb.block :
                slot(dst, i) = IF i <= rem THEN cb.first_frame + i - 1 ELSE Silence
           /\ cb.outcome = IF rem < cb.block THEN "stop" ELSE "continue"
           /\ tags.last = ncb => state.last = cb.last_frame
           /\ tags.first = ncb => state.first = cb.first_frame

\* 10,000 frames, first_frame 9,990, 20 requested: 10 frames, 10 zeros, one stop
C3_Witness ==
  /\ sound = Example /\ Returned /\ ~cb.loop
  /\ cb.first_frame = 9990 /\ cb.block = 20
  /\ dst = <<Run(9990, 10, 1), Run(Silence, 10, 0)>>
  /\ state.last = 9999
  /\ cb.outcome = "stop" /\ stops = 1 /\ stream = "finished"

\* C4: with loop, the callback copies size = min(block_size, right - first_frame + 1)
\* frames from first_frame and the other block_size - size from left, and records
\* last_frame = left + (block_size - size) - 1; for 10,000 frames at 1,000 Hz with
\* markers at 3,000 and 6,000 ms, first_frame 4,000 and 2,500 requested: the
\* section is (3000, 5999), the buffer holds [4000, 5999] then [3000, 3499] and
\* last_frame is 3499.
C4_LoopWrap ==
  (Undisturbed /\ cb.loop /\ cb.outcome = "continue") =>
    /\ cb.size = Min(cb.block, cb.right - cb.first_frame + 1)
    /\ cb.size < cb.block => cb.last_frame = cb.left + (cb.block - cb.size) - 1
    /\ (sound = Example /\ markers = <<3000, 6000>> /\ cb.first_frame = 4000
        /\ cb.block = 2500) =>
         /\ <<cb.left, cb.right>> = <<3000, 5999>>
         /\ dst = <<Run(4000, 2000, 1), Run(3000, 500, 1)>>
         /\ cb.last_frame = 3499

\* C5: the first callback after start records first_frame = the frame of the
\* start position (the position the host prepared, or the one a previous stop
\* returned).
C5_FirstFrameIsStartPosition ==
  (cb.initial /\ ~seeked) => cb.first_frame = pos2frame(sound, position)

\* C6: the estimator answers "unknown" when no callback has recorded an output
\* time yet and when the recorded output time is not after the stream clock.
C6_UnknownWithoutFreshRecord ==
  (est.valid /\ (est.timeBy = 0 \/ est.otime <= est.time)) => est.unknown

\* C7: when delta = output_time - now is positive, the estimated frame is
\* first_frame - delta * sample_rate, and the estimated position is the
\* position of that frame: for a whole frame of the buffer what
\* Audio.position_at returns for it, for a frame between two frames of the
\* buffer the whole milliseconds of frame / sample_rate * 1000.
C7_EstimateFormula ==
  (est.valid /\ est.otime > est.time) =>
    LET num    == est.first * MsPerSec - (est.otime - est.time) * sound.rate
        whole  == num % MsPerSec = 0
        inside == 0 <= num /\ num <= (sound.frames - 1) * MsPerSec
    IN  /\ est.num = num
        /\ (inside /\ whole) => est.pos = position_at(sound, num \div MsPerSec)
        /\ (inside /\ ~whole) =>
             est.pos * sound.rate <= num /\ num < (est.pos + 1) * sound.rate

\* first_frame 4000, output_time 10.0 s, now 9.5 s, 1000 Hz: frame 3500, 3500 ms
C7_Witness ==
  /\ sound = Example /\ est.valid
  /\ est.first = 4000 /\ est.otime = 10000 /\ est.time = 9500
  /\ est.num = 3500 * MsPerSec /\ est.pos = 3500

\* C8: a position query reads first_frame and output_time that one and the same
\* callback wrote.
C8_RecordFromOneCallback ==
  est.valid => est.firstBy = est.timeBy

Resolved ==
  \/ cb.pc \in {"l161", "l162", "l80"}
  \/ cb.pc = "idle" /\ cb.outcome = "continue"
  \/ cb.pc = "idle" /\ cb.exc = "ValueError"

\* C9: with set_marker/unset_marker running during a looped callback, the
\* (left, right) the callback uses is _region(first_frame) on the marker list as
\* it stood at one instant of the lookup, and the lookup raises no IndexError.
C9_SectionFromOneSnapshot ==
  /\ cb.exc # "IndexError"
  /\ (cb.loop /\ Resolved) =>
       \E ms \in mhist : region(cb.first_frame, ms, sound) = <<cb.left, cb.right>>

\* the three states of the engine of main.py, read off its stream
EngineOf(m) ==
  IF m.stream = "stopped" THEN "Idle"
  ELSE IF m.stream = "closed" THEN "Closed"
  ELSE "Running"

StrictlyIncreasing(ms) == \A i \in 1..(Len(ms) - 1) : ms[i] < ms[i + 1]

Holds(ms, p) == \E i \in 1..Len(ms) : ms[i] = p

\* C11: after any sequence of set_marker and unset_marker calls on an Audio
\* that started without markers, the markers are strictly increasing (so
\* without duplicates); set_marker leaves the position among the markers, and
\* set_marker of a position already present leaves the list as it was.
C11_MarkerOrdering ==
  /\ StrictlyIncreasing(audio.markers)
  /\ audio.op = "set_marker" =>
       /\ Holds(audio.markers, audio.arg)
       /\ Holds(audio.prev, audio.arg) => audio.markers = audio.prev

\* set_marker(5000) on the single marker 5000 that a first set_marker(5000) left
C11_Witness ==
  /\ sound = Example /\ audio.op = "set_marker" /\ audio.arg = 5000
  /\ audio.prev = <<5000>> /\ audio.markers = <<5000>>

\* a marker list as the spec admits it: strictly increasing, every position
\* inside (0, length)
ValidMarkers(s, ms) ==
  /\ StrictlyIncreasing(ms)
  /\ \A i \in 1..Len(ms) : 0 < ms[i] /\ ms[i] < length(s)

\* a bound of section_at, None standing for the edge of the buffer
LeftOf(look) == IF look.left = <<>> THEN 0 ELSE look.left[1]
RightOf(look, s) == IF look.right = <<>> THEN s.frames - 1 ELSE look.right[1]

\* C12: for every frame f in [0, frames-1] and every valid marker list,
\* section_at(f) returns without error bounds with left <= f <= right, None
\* standing for 0 on the left and frames-1 on the right; so does _region(f).
C12_SectionCoverage ==
  (audio.op = "section_at" /\ ValidMarkers(sound, audio.markers)) =>
    /\ audio.raised = "" /\ audio.lookups # <<>>
    /\ LET look == audio.lookups[Len(audio.lookups)]
           rg   == region(audio.arg, audio.markers, sound)
       IN  /\ look.frame = audio.arg
           /\ LeftOf(look) <= audio.arg /\ audio.arg <= RightOf(look, sound)
           /\ rg[1] <= audio.arg /\ audio.arg <= rg[2]

\* markers at 3000 and 6000 ms on the 10,000-frame sound: frame 2999 lies in
\* the first section, frame 6000 in the last
C12_Witness ==
  /\ sound = Example /\ audio.op = "section_at" /\ audio.markers = <<3000, 6000>>
  /\ audio.lookups = <<[frame |-> 2999, left |-> <<>>, right |-> <<3000>>],
                       [frame |-> 6000, left |-> <<6000>>, right |-> <<>>]>>

\* C13: the sections partition the buffer: on a valid marker list the ranges
\* [left, right] that section_at returns for two frames are the same range or
\* have no frame in common, a range is the same exactly when each frame lies in
\* the other's range, and every frame lies in its range.
C13_SectionsPartition ==
  (Len(audio.lookups) = 2 /\ ValidMarkers(sound, audio.markers)) =>
    LET a  == audio.lookups[1]
        b  == audio.lookups[2]
        la == LeftOf(a)
        ra == RightOf(a, sound)
        lb == LeftOf(b)
        rb == RightOf(b, sound)
    IN  /\ la <= a.frame /\ a.frame <= ra
        /\ lb <= b.frame /\ b.frame <= rb
        /\ (la = lb /\ ra = rb) \/ ra < lb \/ rb < la
        /\ (la = lb /\ ra = rb) <=> (la <= b.frame /\ b.frame <= ra)

\* C15: unset_marker(position) on a list that holds position removes that
\* marker and leaves the others in their order; on a list that does not hold it,
\* it raises ValueError (list.remove's not-found error) to the caller and
\* leaves the list as it was.
C15_UnsetMarker ==
  audio.op = "unset_marker" =>
    IF Holds(audio.prev, audio.arg)
    THEN /\ audio.raised = ""
         /\ LET Other(x) == x # audio.arg
            IN  audio.markers = SelectSeq(audio.prev, Other)
         /\ Len(audio.markers) = Len(audio.prev) - 1
    ELSE /\ audio.raised = "ValueError"
         /\ audio.markers = audio.prev

\* unset_marker(5000) on markers 3000 and 6000: not found, both markers stay
C15_Witness ==
  /\ sound = Example /\ audio.op = "unset_marker" /\ audio.arg = 5000
  /\ audio.prev = <<3000, 6000>> /\ audio.markers = <<3000, 6000>>
  /\ audio.raised = "ValueError"

\* C16 as stated: for every valid frame f and every sample rate,
\* frame_at(position_at(f)) is within 1 frame of f.
C16_RoundTripWithinOne ==
  (audio.op = "round_trip" /\ audio.raised = "") =>
    /\ audio.arg - audio.back <= 1
    /\ audio.back - audio.arg <= 1

\* C16, amended: for every valid frame f and every sample rate, both assertions
\* hold, frame_at(position_at(f)) is never after f and is less than
\* sample_rate / 1000 + 1 frames before it: within 1 frame up to 1000 Hz.
C16_RoundTripWithinOneMs ==
  audio.op = "round_trip" =>
    /\ audio.raised = ""
    /\ audio.back <= audio.arg
    /\ (audio.arg - audio.back) * MsPerSec < sound.rate + MsPerSec
    /\ sound.rate <= MsPerSec => audio.arg - audio.back <= 1

\* 44,100 Hz: frame 88 is at 1 ms, and 1 ms is frame 44
C16_Witness ==
  /\ sound = Hifi /\ audio.op = "round_trip" /\ audio.arg = 88
  /\ audio.pos = 1 /\ audio.back = 44

\* C17: when a callback has returned, also the one without loop that raised
\* CallbackStop at the end of the data, State holds the output time handed to
\* that callback together with its first_frame and, unless a seek stored its
\* target since, its last_frame.
C17_RecordAfterCallback ==
  (Returned /\ cb.outcome \in {"continue", "stop"}) =>
    /\ state.otime = cb.time /\ tags.otime = ncb
    /\ state.first = cb.first_frame
    /\ tags.last # 0 - 1 => state.last = cb.last_frame

\* C20: a seek is not lost: from the return of seek until the next callback
\* starts, buff_last_frame is the frame of the clamped position, whatever a
\* callback in progress stores, and the first callback that starts after the
\* seek begins at the frame right after it.
C20_SeekNotLost ==
  /\ target # <<>> => state.last = target[1]
  /\ (cb.pc # "idle" /\ cb.sought # <<>>) => cb.first_frame = cb.sought[1] + 1

\* C19: when the estimator has a record of one callback whose output time is
\* after the stream clock (the case in which it is to return a value), the
\* estimated frame lies in [0, frames-1], where position_at is defined, and,
\* with loop on, inside the section of the recorded first_frame.
C19_EstimateInRange ==
  (est.valid /\ est.timeBy > 0 /\ est.firstBy = est.timeBy /\ est.otime > est.time) =>
    /\ 0 <= est.num /\ est.num <= (sound.frames - 1) * MsPerSec
    /\ loop =>
         LET rg == region(est.first, markers, sound)
         IN  rg[1] * MsPerSec <= est.num /\ est.num <= rg[2] * MsPerSec

\* C18: without loop, seek or toggle of the loop flag, the buffers of the
\* callbacks returned since start, one after the other, hold the frames from the
\* first callback's first_frame on, each once and in order, with no gap between
\* two callbacks; zeros follow only after frame frames-1, and exactly when the
\* stream has raised CallbackStop, also when the data ended on the boundary
\* between two buffers.
C18_PlainContiguous ==
  (played.ok /\ played.runs # <<>>) =>
    LET r == played.runs
    IN  /\ Len(r) <= 2
        /\ r[1].step = 1 /\ r[1].from = played.first[1]
        /\ r[1].from + r[1].len <= sound.frames
        /\ Len(r) = 2 =>
             r[2].from = Silence /\ r[1].from + r[1].len = sound.frames
        /\ Len(r) = 2 <=> stops = 1

\* 6 frames in two buffers of 3, then a third buffer of zeros and the stop
C18_Witness ==
  /\ sound = Small /\ played.ok /\ ncb = 3 /\ stream = "finished"
  /\ played.first = <<0>>
  /\ played.runs = <<Run(0, 6, 1), Run(Silence, 3, 0)>>

\* C14: a callback reads the loop flag once and fills its whole buffer under
\* the value it read: with the flag read as on, the frames up to right and then
\* from left, never a zero fill or a stop; with the flag read as off, the
\* frames that remain and then zeros.  This stays so whatever the flag becomes
\* during the callback and after it: a change of the flag alters neither the
\* buffer nor the frames recorded in State.  A callback that no control
\* operation ran during has read the flag as it is.
C14_LoopFlagPerCallback ==
  LET empty == <<Run(Unwritten, cb.block, 0)>>
      lc    == loop_copy(cb.first_frame, cb.left, cb.right, cb.block, empty, sound)
      pc    == plain_copy(cb.first_frame, cb.block, empty, sound)
      copied == \/ cb.pc \in {"l161", "l162", "l168", "l169", "l80"}
                \/ Returned /\ cb.outcome \in {"continue", "stop"}
  IN  /\ (copied /\ cb.loop) =>
           /\ cb.pc \in {"l161", "l162", "l80", "idle"} /\ cb.outcome # "stop"
           /\ dst = lc.d /\ cb.last_frame = lc.last_frame
      /\ (copied /\ ~cb.loop) =>
           /\ cb.pc \in {"l168", "l169", "l80", "idle"}
           /\ dst = IF cb.outcome = "stop" THEN fill_zero(pc.d, pc.size) ELSE pc.d
           /\ cb.last_frame = pc.last_frame
      /\ (copied /\ tags.first = ncb) => state.first = cb.first_frame
      /\ (copied /\ tags.last = ncb) => state.last = cb.last_frame
      /\ (cb.pc \notin {"idle", "l151"} /\ cb.clean) => cb.loop = loop

\* the flag went off while a looped callback was past its test: the callback
\* wrapped inside its section all the same
C14_Witness ==
  /\ cb.loop /\ ~loop /\ ~cb.clean /\ Returned /\ cb.outcome = "continue"
  /\ cb.size < cb.block /\ Len(dst) = 2

====
